---- MODULE Spec2Model ----
(***************************************************************************)
(* Model of the metadata store of lukechampine.com/us (package renterutil):*)
(* the MetaDB interface with its two backends, EphemeralMetaDB (in memory, *)
(* one mutex) and BoltMetaDB (one bolt transaction per operation).         *)
(*                                                                         *)
(* Every operation is applied to both backends side by side; `call` holds  *)
(* the operation and its arguments, `eret` and `bret` what each backend    *)
(* returned.  A Go panic is a return whose err is "panic"; no operation    *)
(* follows it (the process is gone).                                       *)
(*                                                                         *)
(* DBShard is modelled by its HostKey and SectorRoot; Offset and Nonce are *)
(* stored and returned unchanged by every operation and read by none.      *)
(***************************************************************************)
EXTENDS Integers, Sequences, FiniteSets, TLC

VARIABLES
    shards, chunks, blobs, refs,                          \* EphemeralMetaDB fields
    bktShards, bktChunks, bktBlobs, seqShards, seqChunks, \* BoltMetaDB buckets and their sequences
    call, eret, bret, nops,                               \* last call, what each backend returned, calls so far
    live,                                                 \* history: keys added and not deleted since, per backend
    pc, mu, req, obs,                                     \* concurrent callers of EphemeralMetaDB
    meta, bktMeta,                                        \* EphemeralMetaDB.meta and BoltMetaDB's meta bucket
    walk,                                                 \* a ForEachBlob in progress: keys taken, keys handed to fn
    adding,                                               \* an AddChunkAndShards in progress: shards added so far
    conn, host, sector, contract,                         \* Downloader fields; contract is the ContractEditor's state
    dpc, dcall, loc, dret,                                \* a call of Sector or PartialSector: position, arguments, locals, return
    wire, hist,                                           \* what the call sent to the host; history of the call
    deadline                                              \* the deadline last asked of the connection

vars == <<shards, chunks, blobs, refs,
          bktShards, bktChunks, bktBlobs, seqShards, seqChunks,
          call, eret, bret, nops, live, pc, mu, req, obs, meta, bktMeta, walk, adding,
          conn, host, sector, contract, dpc, dcall, loc, dret, wire, hist, deadline>>

\* the Downloader and its call
DlVars == <<conn, host, sector, contract, dpc, dcall, loc, dret, wire, hist, deadline>>

\* the metadata stores and their callers
DbVars == <<shards, chunks, blobs, refs,
            bktShards, bktChunks, bktBlobs, seqShards, seqChunks,
            call, eret, bret, nops, live, pc, mu, req, obs, meta, bktMeta, walk, adding>>

(***************************************************************************)
(* Bounds of the model and the inputs drawn.                               *)
(***************************************************************************)
MaxOps == 3                  \* calls made on the stores

\* the inputs drawn
MinShardsIn == {0, 1, 2}     \* m
SlotsIn == {1, 2}            \* n
SlotIndexIn == {0, 1}        \* i
ShardIdsIn == {0, 1, 2}      \* shard ids passed in
ChunkIdsIn == {0, 1, 2}      \* chunk ids passed in

Keys == {<<>>, <<1>>, <<2>>}
Seeds == {7}
Hosts == {"h1", "h2"}
Roots == {"r1", "r2"}
Lengths == {5}

Rec1 == [HostKey |-> "h1", SectorRoot |-> "r1"]
Rec2 == [HostKey |-> "h2", SectorRoot |-> "r2"]
ShardRecs == {Rec1, Rec2}
ShardLists == {<<Rec1>>, <<Rec1, Rec2>>} \* ss of AddChunkAndShards
ChunkLists == {<<>>, <<1>>, <<2>>, <<1, 1>>, <<1, 2>>}        \* b.Chunks of AddBlob

ErrKeyNotFound == "key not found"
NoErr == "nil"
Panic == "panic"

Ret(e, v) == [err |-> e, val |-> v]
NoVal == "none"

(***************************************************************************)
(* Go values                                                               *)
(***************************************************************************)
\* db.refs[k] on a map[uint64]int: the zero value when k is absent.
RefGet(r, k) == IF k \in DOMAIN r THEN r[k] ELSE 0

\* db.refs[k] += d: writes the entry, creating it when absent.
RefAdd(r, k, d) == [x \in DOMAIN r \cup {k} |-> IF x = k THEN RefGet(r, k) + d ELSE r[x]]

\* make([]uint64, n)
ZeroSlice(n) == [j \in 1..n |-> 0]

\* uint8(m)
Uint8(m) == m % 256

\* a slice index id-1 (uint64) is in range exactly when 1 <= id <= len
InRange(id, s) == id >= 1 /\ id <= Len(s)

DBChunk(id, shs, m, length) == [ID |-> id, Shards |-> shs, MinShards |-> Uint8(m), Len |-> length]
DBBlob(key, cs, seed) == [Key |-> key, Chunks |-> cs, Seed |-> seed]
ZeroChunk == [ID |-> 0, Shards |-> <<>>, MinShards |-> 0, Len |-> 0]
ZeroBlob == [Key |-> <<>>, Chunks |-> <<>>, Seed |-> 0]

EmptyMap == [x \in {} |-> 0]

(***************************************************************************)
(* EphemeralMetaDB.  A db is [shards, chunks, blobs, refs]; every operation*)
(* yields [db, err, val].                                                  *)
(***************************************************************************)
EOut(db, e, v) == [db |-> db, err |-> e, val |-> v]

NewEphemeralMetaDB == [shards |-> <<>>, chunks |-> <<>>, blobs |-> EmptyMap, refs |-> EmptyMap]

EphemeralAddShard(db, s) ==
    LET sh == Append(db.shards, s)
    IN  EOut([db EXCEPT !.shards = sh], NoErr, Len(sh))

EphemeralShard(db, id) ==
    IF InRange(id, db.shards) THEN EOut(db, NoErr, db.shards[id])
    ELSE EOut(db, Panic, NoVal)

EphemeralAddChunk(db, m, n, length) ==
    LET c == DBChunk(Len(db.chunks) + 1, ZeroSlice(n), m, length)
    IN  EOut([db EXCEPT !.chunks = Append(db.chunks, c)], NoErr, c)

EphemeralSetChunkShard(db, id, i, s) ==
    IF ~InRange(id, db.chunks) THEN EOut(db, Panic, NoVal)
    ELSE IF ~(i >= 0 /\ i < Len(db.chunks[id].Shards)) THEN EOut(db, Panic, NoVal)
    ELSE LET old == db.chunks[id].Shards[i + 1]
             r1 == RefAdd(db.refs, old, -1)
             cs == [db.chunks EXCEPT ![id].Shards[i + 1] = s]
             r2 == RefAdd(r1, s, 1)
         IN  EOut([db EXCEPT !.chunks = cs, !.refs = r2], NoErr, NoVal)

EphemeralChunk(db, id) ==
    IF id = 0 THEN EOut(db, Panic, NoVal)
    ELSE IF ~InRange(id, db.chunks) THEN EOut(db, Panic, NoVal)
    ELSE EOut(db, NoErr, db.chunks[id])

EphemeralAddBlob(db, b) ==
    LET bl == [k \in DOMAIN db.blobs \cup {b.Key} |-> IF k = b.Key THEN b ELSE db.blobs[k]]
    IN  EOut([db EXCEPT !.blobs = bl], NoErr, NoVal)

EphemeralBlob(db, key) ==
    IF key \in DOMAIN db.blobs THEN EOut(db, NoErr, db.blobs[key])
    ELSE EOut(db, ErrKeyNotFound, ZeroBlob)

\* for _, sid := range shs { db.refs[sid]-- }
RECURSIVE DecShards(_, _)
DecShards(r, shs) ==
    IF shs = <<>> THEN r ELSE DecShards(RefAdd(r, Head(shs), -1), Tail(shs))

\* for _, cid := range cids { for _, sid := range db.chunks[cid-1].Shards {...} }
\* stops at the first cid out of range (index out of range panics)
RECURSIVE DecChunks(_, _, _)
DecChunks(r, cs, cids) ==
    IF cids = <<>> THEN [refs |-> r, ok |-> TRUE]
    ELSE IF ~InRange(Head(cids), cs) THEN [refs |-> r, ok |-> FALSE]
    ELSE DecChunks(DecShards(r, cs[Head(cids)].Shards), cs, Tail(cids))

EphemeralDeleteBlob(db, key) ==
    IF key \notin DOMAIN db.blobs THEN EOut(db, NoErr, NoVal)
    ELSE LET d == DecChunks(db.refs, db.chunks, db.blobs[key].Chunks)
         IN  IF ~d.ok THEN EOut([db EXCEPT !.refs = d.refs], Panic, NoVal)
             ELSE EOut([db EXCEPT !.refs = d.refs,
                                  !.blobs = [k \in DOMAIN db.blobs \ {key} |-> db.blobs[k]]],
                       NoErr, NoVal)

\* The result map: host -> the roots appended for it.  Go ranges over db.refs in
\* no fixed order, so the roots of one host are a multiset: root -> how many times.
EphemeralUnreferencedSectors(db) ==
    LET zero == {sid \in DOMAIN db.refs : db.refs[sid] = 0}
    IN  IF \E sid \in zero : ~InRange(sid, db.shards) THEN EOut(db, Panic, NoVal)
        ELSE LET hs == {db.shards[sid].HostKey : sid \in zero}
                 cnt(h, r) == Cardinality({sid \in zero : db.shards[sid].HostKey = h
                                                        /\ db.shards[sid].SectorRoot = r})
                 m == [h \in hs |-> [r \in {db.shards[sid].SectorRoot :
                                             sid \in {x \in zero : db.shards[x].HostKey = h}}
                                     |-> cnt(h, r)]]
             IN  EOut(db, NoErr, m)

(***************************************************************************)
(* Sia encoding, in words: a slice is its length followed by its elements, *)
(* a struct is its fields in order.                                        *)
(***************************************************************************)
MarshalShard(s) == <<s.HostKey, s.SectorRoot>>

UnmarshalShard(b) ==
    IF Len(b) < 2 THEN [ok |-> FALSE, val |-> NoVal]
    ELSE [ok |-> TRUE, val |-> [HostKey |-> b[1], SectorRoot |-> b[2]]]

MarshalChunk(c) == <<c.ID, Len(c.Shards)>> \o c.Shards \o <<c.MinShards, c.Len>>

UnmarshalChunk(b) ==
    IF Len(b) < 2 \/ Len(b) < b[2] + 4 THEN [ok |-> FALSE, val |-> ZeroChunk]
    ELSE LET n == b[2]
         IN  [ok |-> TRUE,
              val |-> [ID |-> b[1], Shards |-> SubSeq(b, 3, 2 + n),
                       MinShards |-> b[3 + n], Len |-> b[4 + n]]]

\* encoding.MarshalAll(b.Chunks, b.Seed)
MarshalAll(cs, seed) == <<Len(cs)>> \o cs \o <<seed>>

\* encoding.UnmarshalAll(blobBytes, &b.Chunks, &b.Seed)
UnmarshalAll(b) ==
    IF Len(b) < 1 \/ Len(b) < b[1] + 2 THEN [ok |-> FALSE, Chunks |-> <<>>, Seed |-> 0]
    ELSE [ok |-> TRUE, Chunks |-> SubSeq(b, 2, 1 + b[1]), Seed |-> b[2 + b[1]]]

(***************************************************************************)
(* bolt: a bucket is a map from key to value with a sequence; a transaction*)
(* works on a copy [shards, chunks, blobs, seqShards, seqChunks] that      *)
(* Update commits when the callback returns nil and drops otherwise.       *)
(***************************************************************************)
ErrDecode == "could not decode"
ErrBolt == "bolt error"
ErrKeyRequired == "key required"

\* what the environment does to one bolt call: nothing, fail NextSequence, fail Put
Faults == {"none", "seq", "put"}

\* Bucket.Get: nil when the key is absent
Get(bkt, k) == IF k \in DOMAIN bkt THEN bkt[k] ELSE <<>>

\* Bucket.Put
Put(bkt, k, v) == [x \in DOMAIN bkt \cup {k} |-> IF x = k THEN v ELSE bkt[x]]

\* Bucket.Delete
Delete(bkt, k) == [x \in DOMAIN bkt \ {k} |-> bkt[x]]

NewBoltMetaDB ==
    [shards |-> EmptyMap, chunks |-> EmptyMap, blobs |-> EmptyMap, seqShards |-> 0, seqChunks |-> 0]

\* db.bdb.Update(fn): r is the callback's outcome [tx, err, val]
Update(db, r) == IF r.err = NoErr THEN EOut(r.tx, NoErr, r.val) ELSE EOut(db, r.err, r.val)

TxOut(tx, e, v) == [tx |-> tx, err |-> e, val |-> v]

addShard(tx, s, f) ==
    IF f = "seq" THEN TxOut(tx, ErrBolt, 0)
    ELSE LET id == tx.seqShards + 1
             t1 == [tx EXCEPT !.seqShards = id]
         IN  IF f = "put" THEN TxOut(t1, ErrBolt, 0)
             ELSE TxOut([t1 EXCEPT !.shards = Put(t1.shards, id, MarshalShard(s))], NoErr, id)

BoltAddShard(db, s, f) == Update(db, addShard(db, s, f))

BoltShard(db, id) ==
    LET u == UnmarshalShard(Get(db.shards, id))
    IN  IF u.ok THEN EOut(db, NoErr, u.val) ELSE EOut(db, ErrDecode, NoVal)

addChunk(tx, m, length, shs, f) ==
    IF f = "seq" THEN TxOut(tx, ErrBolt, ZeroChunk)
    ELSE LET id == tx.seqChunks + 1
             t1 == [tx EXCEPT !.seqChunks = id]
             c == DBChunk(id, shs, m, length)
         IN  IF f = "put" THEN TxOut(t1, ErrBolt, ZeroChunk)
             ELSE TxOut([t1 EXCEPT !.chunks = Put(t1.chunks, id, MarshalChunk(c))], NoErr, c)

BoltAddChunk(db, m, n, length, f) == Update(db, addChunk(db, m, length, ZeroSlice(n), f))

BoltSetChunkShard(db, id, i, s) ==
    LET u == UnmarshalChunk(Get(db.chunks, id))
    IN  IF ~u.ok THEN EOut(db, ErrDecode, NoVal)
        ELSE IF ~(i >= 0 /\ i < Len(u.val.Shards)) THEN EOut(db, Panic, NoVal)
        ELSE LET c == [u.val EXCEPT !.Shards[i + 1] = s]
             IN  EOut([db EXCEPT !.chunks = Put(db.chunks, id, MarshalChunk(c))], NoErr, NoVal)

\* the loop of AddChunkAndShards' callback; fpos is the element whose addShard
\* fails with fault fkind (0: none).  failed: the loop left through `return nil`.
RECURSIVE BoltAddShards(_, _, _, _, _)
BoltAddShards(tx, ss, i, fpos, fkind) ==
    IF ss = <<>> THEN [tx |-> tx, ids |-> <<>>, failed |-> FALSE]
    ELSE LET a == addShard(tx, Head(ss), IF i = fpos THEN fkind ELSE "none")
         IN  IF a.err # NoErr THEN [tx |-> a.tx, ids |-> <<>>, failed |-> TRUE]
             ELSE LET rest == BoltAddShards(a.tx, Tail(ss), i + 1, fpos, fkind)
                  IN  [tx |-> rest.tx, ids |-> <<a.val>> \o rest.ids, failed |-> rest.failed]

BoltAddChunkAndShards(db, m, length, ss, fpos, fkind) ==
    LET a == BoltAddShards(db, ss, 1, fpos, fkind)
    IN  IF a.failed THEN Update(db, TxOut(a.tx, NoErr, ZeroChunk))
        ELSE Update(db, addChunk(a.tx, m, length, a.ids,
                                 IF fpos = Len(ss) + 1 THEN fkind ELSE "none"))

BoltChunk(db, id) ==
    LET u == UnmarshalChunk(Get(db.chunks, id))
    IN  IF u.ok THEN EOut(db, NoErr, u.val) ELSE EOut(db, ErrDecode, u.val)

BoltAddBlob(db, b) ==
    IF b.Key = <<>> THEN EOut(db, ErrKeyRequired, NoVal)
    ELSE EOut([db EXCEPT !.blobs = Put(db.blobs, b.Key, MarshalAll(b.Chunks, b.Seed))], NoErr, NoVal)

\* BoltBlob without `b.Key = key`
BoltBlobKeyUnset(db, key) ==
    LET bytes == Get(db.blobs, key)
    IN  IF Len(bytes) = 0 THEN EOut(db, ErrKeyNotFound, ZeroBlob)
        ELSE LET u == UnmarshalAll(bytes)
             IN  EOut(db, IF u.ok THEN NoErr ELSE ErrDecode, DBBlob(<<>>, u.Chunks, u.Seed))

BoltBlob(db, key) ==
    LET bytes == Get(db.blobs, key)
    IN  IF Len(bytes) = 0 THEN EOut(db, ErrKeyNotFound, DBBlob(key, <<>>, 0))
        ELSE LET u == UnmarshalAll(bytes)
             IN  EOut(db, IF u.ok THEN NoErr ELSE ErrDecode, DBBlob(key, u.Chunks, u.Seed))

BoltDeleteBlob(db, key) == EOut([db EXCEPT !.blobs = Delete(db.blobs, key)], NoErr, NoVal)

BoltUnreferencedSectors(db) == EOut(db, NoErr, EmptyMap)

(***************************************************************************)
(* The state machine: both stores, built by New...MetaDB, take the same    *)
(* calls.                                                                  *)
(***************************************************************************)
EDB == [shards |-> shards, chunks |-> chunks, blobs |-> blobs, refs |-> refs]

BDB == [shards |-> bktShards, chunks |-> bktChunks, blobs |-> bktBlobs,
        seqShards |-> seqShards, seqChunks |-> seqChunks]

Idle == [p \in {} |-> 0]

\* no ForEachBlob is in progress
NoWalk ==
    [st |-> "idle", bad |-> {}, ekeys |-> <<>>, bkeys |-> <<>>, evis |-> <<>>, bvis |-> <<>>,
     eerr |-> NoErr, berr |-> NoErr, elive |-> {}, blive |-> {}, beside |-> FALSE]

\* no AddChunkAndShards is in progress
NotAdding == [st |-> "idle", ss |-> <<>>, ids |-> <<>>, sh0 |-> {}]

\* no Downloader was made
NoDownloader ==
    /\ conn = "nil" /\ host = NoVal /\ sector = NoVal /\ contract = NoVal
    /\ dpc = "none" /\ dcall = NoVal /\ loc = NoVal /\ dret = NoVal
    /\ wire = <<>> /\ hist = NoVal /\ deadline = "none"

Init ==
    /\ shards = NewEphemeralMetaDB.shards
    /\ chunks = NewEphemeralMetaDB.chunks
    /\ blobs = NewEphemeralMetaDB.blobs
    /\ refs = NewEphemeralMetaDB.refs
    /\ bktShards = NewBoltMetaDB.shards
    /\ bktChunks = NewBoltMetaDB.chunks
    /\ bktBlobs = NewBoltMetaDB.blobs
    /\ seqShards = NewBoltMetaDB.seqShards
    /\ seqChunks = NewBoltMetaDB.seqChunks
    /\ call = [op |-> "New"]
    /\ eret = Ret(NoErr, NoVal)
    /\ bret = Ret(NoErr, NoVal)
    /\ nops = 0
    /\ live = [e |-> {}, b |-> {}]
    /\ pc = Idle /\ mu = 0 /\ req = Idle /\ obs = Idle
    /\ meta = EmptyMap /\ bktMeta = EmptyMap
    /\ walk = NoWalk /\ adding = NotAdding
    /\ NoDownloader

\* a panic ends the process
Halted == eret.err = Panic \/ bret.err = Panic

\* the live keys after call c returned err
LiveAfter(l, c, err) ==
    IF err # NoErr THEN l
    ELSE IF c.op = "AddBlob" THEN l \cup {c.b.Key}
    ELSE IF c.op = "DeleteBlob" THEN l \ {c.key}
    ELSE l

\* the calls begun and not yet returned: a ForEachBlob or an AddChunkAndShards
\* in progress, beside which the other calls are made (walk.beside records that
\* one was)
Pending == (IF walk.st = "walking" THEN 1 ELSE 0) + (IF adding.st = "adding" THEN 1 ELSE 0)

\* the call c was made, one of at most n: e and b are what the two backends did with it
Made(n, c, e, b) ==
    /\ ~Halted
    /\ nops + Pending < n
    /\ nops' = nops + 1
    /\ call' = c
    /\ shards' = e.db.shards /\ chunks' = e.db.chunks
    /\ blobs' = e.db.blobs /\ refs' = e.db.refs
    /\ eret' = Ret(e.err, e.val)
    /\ bktShards' = b.db.shards /\ bktChunks' = b.db.chunks /\ bktBlobs' = b.db.blobs
    /\ seqShards' = b.db.seqShards /\ seqChunks' = b.db.seqChunks
    /\ bret' = Ret(b.err, b.val)
    /\ live' = [e |-> LiveAfter(live.e, c, e.err), b |-> LiveAfter(live.b, c, b.err)]
    /\ walk' = [walk EXCEPT !.beside = @ \/ walk.st = "walking"]
    /\ UNCHANGED <<pc, mu, req, obs, adding>>
    /\ UNCHANGED DlVars

\* a call on the blob graph, which leaves the metadata namespace alone
Returned(c, e, b) == Made(MaxOps, c, e, b) /\ UNCHANGED <<meta, bktMeta>>

AddShardOp(F) ==
    \E s \in ShardRecs, f \in F :
        /\ Returned([op |-> "AddShard", s |-> s, f |-> f],
                    EphemeralAddShard(EDB, s), BoltAddShard(BDB, s, f))

AddChunkOp(F) ==
    \E m \in MinShardsIn, n \in SlotsIn, length \in Lengths, f \in F :
        /\ Returned([op |-> "AddChunk", m |-> m, n |-> n, length |-> length, f |-> f],
                    EphemeralAddChunk(EDB, m, n, length), BoltAddChunk(BDB, m, n, length, f))

\* AddChunkAndShards(m, length, ss) is called: shards := make([]uint64, len(ss)).
\* m and length are not read before the chunk is made, where they are drawn
AddChunkAndShardsBegin ==
    /\ ~Halted
    /\ adding.st # "adding"
    /\ nops + Pending < MaxOps
    /\ \E ss \in ShardLists :
        adding' = [st |-> "adding", ss |-> ss, ids |-> <<>>, sh0 |-> DOMAIN shards]
    /\ UNCHANGED <<shards, chunks, blobs, refs, bktShards, bktChunks, bktBlobs, seqShards, seqChunks,
                   call, eret, bret, nops, live, pc, mu, req, obs, meta, bktMeta, walk>>
    /\ UNCHANGED DlVars

\* id, err := db.AddShard(*s); shards[i] = id: EphemeralMetaDB adds the next
\* shard in a critical section of its own and leaves db.mu free again
AddChunkAndShardsAddShard ==
    /\ ~Halted
    /\ adding.st = "adding"
    /\ Len(adding.ids) < Len(adding.ss)
    /\ LET a == EphemeralAddShard(EDB, adding.ss[Len(adding.ids) + 1])
       IN  /\ shards' = a.db.shards
           /\ adding' = [adding EXCEPT !.ids = Append(@, a.val)]
    /\ UNCHANGED <<chunks, blobs, refs, bktShards, bktChunks, bktBlobs, seqShards, seqChunks,
                   call, eret, bret, nops, live, pc, mu, req, obs, meta, bktMeta, walk>>
    /\ UNCHANGED DlVars

\* EphemeralMetaDB takes db.mu again, appends the chunk over the ids it
\* collected and returns it; BoltMetaDB does the whole call in one Update
\* transaction.  fpos: the bolt call that fails (0: none; Len(ss)+1: the addChunk)
AddChunkAndShardsOp(F) ==
    /\ ~Halted
    /\ adding.st = "adding"
    /\ Len(adding.ids) = Len(adding.ss)
    /\ \E m \in MinShardsIn, length \in Lengths, fkind \in F :
      \E fpos \in IF fkind = "none" THEN {0} ELSE 1..(Len(adding.ss) + 1) :
        LET c == DBChunk(Len(chunks) + 1, adding.ids, m, length)
            b == BoltAddChunkAndShards(BDB, m, length, adding.ss, fpos, fkind)
        IN  /\ call' = [op |-> "AddChunkAndShards", m |-> m, length |-> length,
                        ss |-> adding.ss, fpos |-> fpos, fkind |-> fkind]
            /\ chunks' = Append(chunks, c)
            /\ eret' = Ret(NoErr, c)
            /\ bktShards' = b.db.shards /\ bktChunks' = b.db.chunks /\ bktBlobs' = b.db.blobs
            /\ seqShards' = b.db.seqShards /\ seqChunks' = b.db.seqChunks
            /\ bret' = Ret(b.err, b.val)
    /\ nops' = nops + 1
    /\ adding' = NotAdding
    /\ walk' = [walk EXCEPT !.beside = @ \/ walk.st = "walking"]
    /\ UNCHANGED <<shards, blobs, refs, live, pc, mu, req, obs, meta, bktMeta>>
    /\ UNCHANGED DlVars

AddShard == AddShardOp({"none"})

AddChunk == AddChunkOp({"none"})

AddChunkAndShards ==
    AddChunkAndShardsBegin \/ AddChunkAndShardsAddShard \/ AddChunkAndShardsOp({"none"})

Shard ==
    \E id \in ShardIdsIn :
        Returned([op |-> "Shard", id |-> id], EphemeralShard(EDB, id), BoltShard(BDB, id))

SetChunkShard ==
    \E id \in ChunkIdsIn \ {0}, i \in SlotIndexIn, s \in ShardIdsIn :
        Returned([op |-> "SetChunkShard", id |-> id, i |-> i, s |-> s],
                 EphemeralSetChunkShard(EDB, id, i, s), BoltSetChunkShard(BDB, id, i, s))

Chunk ==
    \E id \in ChunkIdsIn :
        Returned([op |-> "Chunk", id |-> id], EphemeralChunk(EDB, id), BoltChunk(BDB, id))

AddBlob ==
    \E key \in Keys, cs \in ChunkLists, seed \in Seeds :
        LET b == DBBlob(key, cs, seed)
        IN  Returned([op |-> "AddBlob", b |-> b], EphemeralAddBlob(EDB, b), BoltAddBlob(BDB, b))

Blob ==
    \E key \in Keys :
        Returned([op |-> "Blob", key |-> key], EphemeralBlob(EDB, key), BoltBlob(BDB, key))

DeleteBlob ==
    \E key \in Keys :
        Returned([op |-> "DeleteBlob", key |-> key],
                 EphemeralDeleteBlob(EDB, key), BoltDeleteBlob(BDB, key))

UnreferencedSectors ==
    Returned([op |-> "UnreferencedSectors"],
             EphemeralUnreferencedSectors(EDB), BoltUnreferencedSectors(BDB))

Next ==
    \/ AddShard \/ Shard
    \/ AddChunk \/ SetChunkShard \/ AddChunkAndShards \/ Chunk
    \/ AddBlob \/ Blob \/ DeleteBlob
    \/ UnreferencedSectors

Spec == Init /\ [][Next]_vars

(***************************************************************************)
(* The same stores when a bolt call may fail (NextSequence or Put returns  *)
(* an error): the calls whose code has a branch for it.                    *)
(***************************************************************************)
AddShardFault == AddShardOp(Faults \ {"none"})

AddChunkFault == AddChunkOp(Faults \ {"none"})

AddChunkAndShardsFault == AddChunkAndShardsOp(Faults \ {"none"})

NextFault ==
    \/ AddShard \/ AddShardFault \/ Shard
    \/ AddChunk \/ AddChunkFault \/ Chunk
    \/ AddChunkAndShards \/ AddChunkAndShardsFault

SpecFault == Init /\ [][NextFault]_vars

(***************************************************************************)
(* Concurrent callers of one EphemeralMetaDB.  Each caller makes one call; *)
(* a method takes db.mu, runs its body and releases db.mu on return.       *)
(* SetChunkShard's body is taken statement by statement.  The store they   *)
(* share was built by five calls.                                          *)
(***************************************************************************)
NumProcs == 3

Procs == 1..NumProcs

Prepared ==
    LET d1 == EphemeralAddShard(NewEphemeralMetaDB, Rec1).db
        d2 == EphemeralAddShard(d1, Rec2).db
        d3 == EphemeralAddChunk(d2, 1, 2, 5).db
        d4 == EphemeralSetChunkShard(d3, 1, 0, 1).db
    IN  EphemeralAddBlob(d4, DBBlob(<<1>>, <<1>>, 7)).db

Requests ==
    {[op |-> "SetChunkShard", id |-> 1, i |-> i, s |-> sid] : i \in SlotIndexIn, sid \in ShardIdsIn}
    \cup {[op |-> "Chunk", id |-> 1]}
    \cup {[op |-> "DeleteBlob", key |-> k] : k \in Keys \ {<<>>}}
    \cup {[op |-> "UnreferencedSectors"]}

InitConc ==
    /\ shards = Prepared.shards /\ chunks = Prepared.chunks
    /\ blobs = Prepared.blobs /\ refs = Prepared.refs
    /\ bktShards = NewBoltMetaDB.shards
    /\ bktChunks = NewBoltMetaDB.chunks
    /\ bktBlobs = NewBoltMetaDB.blobs
    /\ seqShards = NewBoltMetaDB.seqShards
    /\ seqChunks = NewBoltMetaDB.seqChunks
    /\ call = [op |-> "New"]
    /\ eret = Ret(NoErr, NoVal)
    /\ bret = Ret(NoErr, NoVal)
    /\ nops = 0
    /\ live = [e |-> {<<1>>}, b |-> {}]
    /\ pc = [p \in Procs |-> "idle"]
    /\ mu = 0
    /\ req = [p \in Procs |-> [op |-> "none"]]
    /\ obs = [p \in Procs |-> Ret(NoErr, NoVal)]
    /\ meta = EmptyMap /\ bktMeta = EmptyMap
    /\ walk = NoWalk /\ adding = NotAdding
    /\ NoDownloader

Others == <<bktShards, bktChunks, bktBlobs, seqShards, seqChunks, call, eret, bret, nops, live,
            meta, bktMeta, walk, adding, DlVars>>

\* the statement a method's body starts with
Body(r) ==
    CASE r.op = "SetChunkShard" -> "dec"
      [] r.op = "Chunk" -> "read"
      [] r.op = "DeleteBlob" -> "delete"
      [] r.op = "UnreferencedSectors" -> "scan"

\* caller p enters a method
Enter(p) ==
    /\ pc[p] = "idle"
    /\ \E r \in Requests : req' = [req EXCEPT ![p] = r]
    /\ pc' = [pc EXCEPT ![p] = "lock"]
    /\ UNCHANGED <<shards, chunks, blobs, refs, mu, obs, Others>>

\* SetChunkShard taking no lock
MustWaitButSetChunkShard(r, m) == r.op # "SetChunkShard" /\ m # 0

\* db.mu.Lock() blocks the caller of r while the mutex m is held
MustWait(r, m) == m # 0

Lock(p) ==
    /\ pc[p] = "lock"
    /\ ~MustWait(req[p], mu)
    /\ mu' = p
    /\ pc' = [pc EXCEPT ![p] = Body(req[p])]
    /\ UNCHANGED <<shards, chunks, blobs, refs, req, obs, Others>>

\* db.refs[db.chunks[id-1].Shards[i]]--
SetDec(p) ==
    /\ pc[p] = "dec"
    /\ refs' = RefAdd(refs, chunks[req[p].id].Shards[req[p].i + 1], -1)
    /\ pc' = [pc EXCEPT ![p] = "slot"]
    /\ UNCHANGED <<shards, chunks, blobs, mu, req, obs, Others>>

\* db.chunks[id-1].Shards[i] = s
SetSlot(p) ==
    /\ pc[p] = "slot"
    /\ chunks' = [chunks EXCEPT ![req[p].id].Shards[req[p].i + 1] = req[p].s]
    /\ pc' = [pc EXCEPT ![p] = "inc"]
    /\ UNCHANGED <<shards, blobs, refs, mu, req, obs, Others>>

\* db.refs[s]++; return nil
SetInc(p) ==
    /\ pc[p] = "inc"
    /\ refs' = RefAdd(refs, req[p].s, 1)
    /\ obs' = [obs EXCEPT ![p] = Ret(NoErr, NoVal)]
    /\ pc' = [pc EXCEPT ![p] = "unlock"]
    /\ UNCHANGED <<shards, chunks, blobs, mu, req, Others>>

\* the bodies of Chunk, DeleteBlob and UnreferencedSectors
RunBody(p) ==
    /\ pc[p] \in {"read", "delete", "scan"}
    /\ LET r == req[p]
           out == CASE r.op = "Chunk" -> EphemeralChunk(EDB, r.id)
                    [] r.op = "DeleteBlob" -> EphemeralDeleteBlob(EDB, r.key)
                    [] r.op = "UnreferencedSectors" -> EphemeralUnreferencedSectors(EDB)
       IN  /\ blobs' = out.db.blobs /\ refs' = out.db.refs
           /\ obs' = [obs EXCEPT ![p] = Ret(out.err, out.val)]
    /\ pc' = [pc EXCEPT ![p] = "unlock"]
    /\ UNCHANGED <<shards, chunks, mu, req, Others>>

\* defer db.mu.Unlock()
Unlock(p) ==
    /\ pc[p] = "unlock"
    /\ mu' = 0
    /\ pc' = [pc EXCEPT ![p] = "done"]
    /\ UNCHANGED <<shards, chunks, blobs, refs, req, obs, Others>>

NextConc ==
    \E p \in Procs :
        \/ Enter(p) \/ Lock(p)
        \/ SetDec(p) \/ SetSlot(p) \/ SetInc(p)
        \/ RunBody(p)
        \/ Unlock(p)

SpecConc == InitConc /\ [][NextConc]_vars

(***************************************************************************)
(* ForEachBlob and the metadata namespace.  The caller's fn is modelled by *)
(* the keys it returns an error on; what ForEachBlob hands to fn, in       *)
(* order, is the val of the return.  fn is called with db.mu free, so the  *)
(* traversal is taken key by key, and the calls of the other actions that  *)
(* happen between two of its steps are those of another caller or of fn.   *)
(***************************************************************************)
\* Go's a < b on strings, and bytes.Compare(a, b) < 0: byte by byte, a proper prefix first
RECURSIVE StringLess(_, _)
StringLess(a, b) ==
    IF b = <<>> THEN FALSE
    ELSE IF a = <<>> THEN TRUE
    ELSE IF Head(a) # Head(b) THEN Head(a) < Head(b)
    ELSE StringLess(Tail(a), Tail(b))

\* keys put in order of length first, bytes second
RECURSIVE SortStringsShortFirst(_)
SortStringsShortFirst(S) ==
    IF S = {} THEN <<>>
    ELSE LET least == CHOOSE x \in S : \A y \in S \ {x} :
                          Len(x) < Len(y) \/ (Len(x) = Len(y) /\ StringLess(x, y))
         IN  <<least>> \o SortStringsShortFirst(S \ {least})

\* sort.Strings(keys) of the keys collected from the map, whatever order the map gave them in
RECURSIVE SortStrings(_)
SortStrings(S) ==
    IF S = {} THEN <<>>
    ELSE LET least == CHOOSE x \in S : \A y \in S \ {x} : StringLess(x, y)
         IN  <<least>> \o SortStrings(S \ {least})

\* Bucket.ForEach: the cursor walks the bucket's keys in byte order
ForEach(bkt) == SortStrings(DOMAIN bkt)

ErrVisit == "fn failed"

\* db.meta[string(key)] = string(val)
EphemeralAddMetadata(m, key, val) == [meta |-> Put(m, key, val), err |-> NoErr, val |-> NoVal]

EphemeralMetadata(m, key) ==
    IF key \notin DOMAIN m THEN [meta |-> m, err |-> ErrKeyNotFound, val |-> <<>>]
    ELSE [meta |-> m, err |-> NoErr, val |-> m[key]]

BoltAddMetadata(bkt, key, val) ==
    IF key = <<>> THEN [meta |-> bkt, err |-> ErrKeyRequired, val |-> NoVal]
    ELSE [meta |-> Put(bkt, key, val), err |-> NoErr, val |-> NoVal]

\* val = append(val, Get(key)...) stays nil when Get returns nil or an empty value
BoltMetadata(bkt, key) ==
    LET val == Get(bkt, key)
    IN  IF Len(val) = 0 THEN [meta |-> bkt, err |-> ErrKeyNotFound, val |-> <<>>]
        ELSE [meta |-> bkt, err |-> NoErr, val |-> val]

MetaKeys == {<<>>, <<1>>}
MetaVals == {<<>>, <<9>>}
FnFails == {{}, {<<1>>}}                 \* the keys fn returns an error on

\* ForEachBlob begins: EphemeralMetaDB copies the keys of db.blobs under db.mu,
\* releases db.mu and sorts them; BoltMetaDB opens a read transaction, whose
\* cursor walks the bucket as it was when the transaction began
ForEachBlobBegin(n) ==
    /\ ~Halted
    /\ walk.st # "walking"
    /\ nops + Pending < n
    /\ \E bad \in FnFails :
        walk' = [st |-> "walking", bad |-> bad,
                 ekeys |-> SortStrings(DOMAIN blobs), bkeys |-> ForEach(bktBlobs),
                 evis |-> <<>>, bvis |-> <<>>, eerr |-> NoErr, berr |-> NoErr,
                 elive |-> live.e, blive |-> live.b, beside |-> FALSE]
    /\ UNCHANGED <<shards, chunks, blobs, refs, bktShards, bktChunks, bktBlobs, seqShards, seqChunks,
                   call, eret, bret, nops, live, pc, mu, req, obs, meta, bktMeta, adding>>
    /\ UNCHANGED DlVars

\* the loop has a key left and no error yet
MoreToVisit(keys, err) == keys # <<>> /\ err = NoErr

\* if err := fn(key); err != nil { return err }: each backend hands its next key
\* to fn, with db.mu free and the store open to other calls, fn's own included
ForEachBlobVisit ==
    /\ ~Halted
    /\ walk.st = "walking"
    /\ MoreToVisit(walk.ekeys, walk.eerr) \/ MoreToVisit(walk.bkeys, walk.berr)
    /\ LET e == MoreToVisit(walk.ekeys, walk.eerr)
           b == MoreToVisit(walk.bkeys, walk.berr)
       IN  walk' = [walk EXCEPT
                !.ekeys = IF e THEN Tail(@) ELSE @,
                !.evis = IF e THEN Append(@, Head(walk.ekeys)) ELSE @,
                !.eerr = IF e /\ Head(walk.ekeys) \in walk.bad THEN ErrVisit ELSE @,
                !.bkeys = IF b THEN Tail(@) ELSE @,
                !.bvis = IF b THEN Append(@, Head(walk.bkeys)) ELSE @,
                !.berr = IF b /\ Head(walk.bkeys) \in walk.bad THEN ErrVisit ELSE @]
    /\ UNCHANGED <<shards, chunks, blobs, refs, bktShards, bktChunks, bktBlobs, seqShards, seqChunks,
                   call, eret, bret, nops, live, pc, mu, req, obs, meta, bktMeta, adding>>
    /\ UNCHANGED DlVars

\* ForEachBlob returns fn's error, or nil after the last key
ForEachBlobReturn ==
    /\ ~Halted
    /\ walk.st = "walking"
    /\ ~MoreToVisit(walk.ekeys, walk.eerr) /\ ~MoreToVisit(walk.bkeys, walk.berr)
    /\ walk' = [walk EXCEPT !.st = "done"]
    /\ nops' = nops + 1
    /\ call' = [op |-> "ForEachBlob", bad |-> walk.bad]
    /\ eret' = Ret(walk.eerr, walk.evis)
    /\ bret' = Ret(walk.berr, walk.bvis)
    /\ UNCHANGED <<shards, chunks, blobs, refs, bktShards, bktChunks, bktBlobs, seqShards, seqChunks,
                   live, pc, mu, req, obs, meta, bktMeta, adding>>
    /\ UNCHANGED DlVars

ForEachBlob == ForEachBlobBegin(MaxOps) \/ ForEachBlobVisit \/ ForEachBlobReturn

AddMetadata ==
    \E key \in MetaKeys, val \in MetaVals :
        LET e == EphemeralAddMetadata(meta, key, val)
            b == BoltAddMetadata(bktMeta, key, val)
        IN  /\ Made(MaxOps, [op |-> "AddMetadata", key |-> key, val |-> val],
                    EOut(EDB, e.err, e.val), EOut(BDB, b.err, b.val))
            /\ meta' = e.meta /\ bktMeta' = b.meta

Metadata ==
    \E key \in MetaKeys :
        LET e == EphemeralMetadata(meta, key)
            b == BoltMetadata(bktMeta, key)
        IN  /\ Made(MaxOps, [op |-> "Metadata", key |-> key],
                    EOut(EDB, e.err, e.val), EOut(BDB, b.err, b.val))
            /\ meta' = e.meta /\ bktMeta' = b.meta

\* every operation of MetaDB
NextAll ==
    \/ AddShard \/ Shard
    \/ AddChunk \/ SetChunkShard \/ AddChunkAndShards \/ Chunk
    \/ AddBlob \/ Blob \/ DeleteBlob \/ ForEachBlob
    \/ UnreferencedSectors
    \/ AddMetadata \/ Metadata

SpecAll == Init /\ [][NextAll]_vars

(***************************************************************************)
(* Listings: blobs under keys of several lengths are added and deleted in  *)
(* any order, shards are added in between, and the keys are listed.        *)
(***************************************************************************)
MaxListOps == 5

ListKeys == {<<>>, <<1>>, <<1, 2>>, <<2>>}

ListAddShard ==
    /\ Made(MaxListOps, [op |-> "AddShard", s |-> Rec1, f |-> "none"],
            EphemeralAddShard(EDB, Rec1), BoltAddShard(BDB, Rec1, "none"))
    /\ UNCHANGED <<meta, bktMeta>>

ListAddBlob ==
    \E key \in ListKeys :
        LET b == DBBlob(key, <<>>, 7)
        IN  /\ Made(MaxListOps, [op |-> "AddBlob", b |-> b], EphemeralAddBlob(EDB, b), BoltAddBlob(BDB, b))
            /\ UNCHANGED <<meta, bktMeta>>

ListDeleteBlob ==
    \E key \in ListKeys :
        /\ Made(MaxListOps, [op |-> "DeleteBlob", key |-> key],
                EphemeralDeleteBlob(EDB, key), BoltDeleteBlob(BDB, key))
        /\ UNCHANGED <<meta, bktMeta>>

ListForEachBlob == ForEachBlobBegin(MaxListOps) \/ ForEachBlobVisit \/ ForEachBlobReturn

NextList == ListAddShard \/ ListAddBlob \/ ListDeleteBlob \/ ListForEachBlob

SpecList == Init /\ [][NextList]_vars

(***************************************************************************)
(* Package proto: the Downloader.  One caller owns it and makes one call   *)
(* of Sector or PartialSector at a time; the host and the network answer   *)
(* each step of the call as they choose.  The helpers of the package that  *)
(* the calls go through (startRevision, negotiateRevision, initiateRPC,    *)
(* newDownloadRevision, isHostDisconnect, SectorMerkleRoot) and the        *)
(* ContractEditor are modelled by their contract.                          *)
(***************************************************************************)
SectorSize == 4194304

\* a uint32 is kept as its two 16-bit halves <<high, low>>
Half == 65536

\* the uint32 of a number below 2^31
U32(n) == <<n \div Half, n % Half>>

MaxUint32 == <<Half - 1, Half - 1>>

\* a + b on uint32: the carry out of the high half is dropped
Add32(a, b) ==
    LET lo == a[2] + b[2]
        hi == a[1] + b[1] + (lo \div Half)
    IN  <<hi % Half, lo % Half>>

\* a > b on uint32
Gt32(a, b) == a[1] > b[1] \/ (a[1] = b[1] /\ a[2] > b[2])

\* errors: what caused them and the message wrapped around the cause
Err(c) == [cause |-> c, msg |-> ""]
Nil == Err("nil")
Wrap(e, m) == [cause |-> e.cause, msg |-> m]

ErrInvalidRange == Err("invalid sector range")
ErrFunds == Err("contract has insufficient funds to support download")
ErrStopResponse == Err("stop")
ErrDisconnect == Err("disconnect")              \* the transport lost the host
ErrRejected == Err("rejected")                  \* the host refused
ErrHeaderTotal == Err("reported payload size is larger than SectorSize")
ErrHeaderSectors == Err("wrong number of sectors")
ErrHeaderPayload == Err("reported sector data is larger than SectorSize")
ErrIncomplete == Err("host sent incomplete sector data")
ErrInvalidData == Err("host sent invalid sector data")
ErrEditor == Err("contract editor failed")
ErrClosed == Err("use of closed network connection")   \* a use of a connection that was closed

\* isHostDisconnect(err): err comes from the transport losing the host
isHostDisconnect(e) == e.cause = ErrDisconnect.cause

\* newDownloadRevision(current, amount): amount moves from the renter to the host
newDownloadRevision(cur, amount) ==
    [cur EXCEPT !.renter = cur.renter - amount, !.hostpay = cur.hostpay + amount, !.revno = cur.revno + 1]

\* a transaction: the revision and who signed it
Txn(rev, sigs) == [rev |-> rev, sigs |-> sigs]
ZeroTxn == Txn(NoVal, {})

\* With the stop response the host ends the negotiation where its
\* countersignature would come; what transaction negotiateRevision returns
\* beside ErrStopResponse is not fixed: the countersigned one, the renter's
\* without the host's signature, or the zero transaction that goes with an error
StopReturns == {"countersigned", "unsigned", "zero"}

\* negotiateRevision(conn, rev, key) by what the host answers and, for the
\* stop response, by which transaction comes back with it
negotiateRevision(rev, answer, back) ==
    CASE answer = "sign" -> [txn |-> Txn(rev, {"renter", "host"}), err |-> Nil]
      [] answer = "stop" /\ back = "countersigned" ->
            [txn |-> Txn(rev, {"renter", "host"}), err |-> ErrStopResponse]
      [] answer = "stop" /\ back = "unsigned" ->
            [txn |-> Txn(rev, {"renter"}), err |-> ErrStopResponse]
      [] answer = "stop" /\ back = "zero" -> [txn |-> ZeroTxn, err |-> ErrStopResponse]
      [] answer = "reject" -> [txn |-> ZeroTxn, err |-> ErrRejected]
      [] answer = "disconnect" -> [txn |-> ZeroTxn, err |-> ErrDisconnect]

\* what the host puts on the wire after the revision: `prefix` bytes of the
\* three length prefixes, then `have` bytes of a sector whose Merkle root is
\* `root`, before the stream ends
Header(total, n, payload) == [totalSize |-> total, numSectors |-> n, payloadSize |-> payload]
Stream(prefix, h, have, root) == [prefix |-> prefix, header |-> h, have |-> have, root |-> root]

NilSector == [cap |-> 0, len |-> 0, root |-> NoVal]

\* UnmarshalSia without the bound on payloadSize
UnmarshalSiaTrustsPayloadSize(sb, r) ==
    LET buf == IF sb.cap # SectorSize THEN [cap |-> SectorSize, len |-> SectorSize, root |-> NoVal] ELSE sb
        hdr == IF r.prefix > 0 THEN [buf EXCEPT !.root = NoVal] ELSE buf
        h == r.header
    IN  IF r.prefix < 24 THEN [sb |-> hdr, err |-> ErrDisconnect, read |-> r.prefix]
        ELSE IF h.totalSize > SectorSize + 16 THEN [sb |-> hdr, err |-> ErrHeaderTotal, read |-> 24]
        ELSE IF h.numSectors # 1 THEN [sb |-> hdr, err |-> ErrHeaderSectors, read |-> 24]
        ELSE IF r.have < h.payloadSize
             THEN [sb |-> [cap |-> SectorSize, len |-> h.payloadSize, root |-> NoVal],
                   err |-> ErrDisconnect, read |-> 24 + r.have]
             ELSE [sb |-> [cap |-> SectorSize, len |-> h.payloadSize, root |-> r.root],
                   err |-> Nil, read |-> 24 + h.payloadSize]

\* sectorBuffer.UnmarshalSia: the buffer afterwards, the error, and how many
\* bytes of the stream were read.  io.ReadFull(r, buf[:24]) writes the length
\* prefixes it gets over the first bytes of the buffer's array (hdr), so what
\* the buffer held before no longer has the root it had, also when the
\* prefixes are rejected and *sb keeps its length
UnmarshalSia(sb, r) ==
    LET buf == IF sb.cap # SectorSize THEN [cap |-> SectorSize, len |-> SectorSize, root |-> NoVal] ELSE sb
        hdr == IF r.prefix > 0 THEN [buf EXCEPT !.root = NoVal] ELSE buf
        h == r.header
    IN  IF r.prefix < 24 THEN [sb |-> hdr, err |-> ErrDisconnect, read |-> r.prefix]
        ELSE IF h.totalSize > SectorSize + 16 THEN [sb |-> hdr, err |-> ErrHeaderTotal, read |-> 24]
        ELSE IF h.numSectors # 1 THEN [sb |-> hdr, err |-> ErrHeaderSectors, read |-> 24]
        ELSE IF h.payloadSize > SectorSize THEN [sb |-> hdr, err |-> ErrHeaderPayload, read |-> 24]
        ELSE IF r.have < h.payloadSize
             THEN [sb |-> [cap |-> SectorSize, len |-> h.payloadSize, root |-> NoVal],
                   err |-> ErrDisconnect, read |-> 24 + r.have]
             ELSE [sb |-> [cap |-> SectorSize, len |-> h.payloadSize, root |-> r.root],
                   err |-> Nil, read |-> 24 + h.payloadSize]

\* SectorMerkleRoot(sector)
SectorMerkleRoot(sb) == sb.root

\* the inputs drawn
MaxCalls == 2                \* calls made on the Downloader

DlRoots == {"r1"}
DlRanges ==                  \* <<offset, length>>
    {<<U32(0), U32(SectorSize)>>, <<U32(0), U32(0)>>, <<U32(8), U32(16)>>,
     <<U32(SectorSize), U32(1)>>, <<MaxUint32, U32(2)>>}
DlPrices == {1, 2}           \* host.DownloadBandwidthPrice
DlFunds == {16, SectorSize, 3 * SectorSize}
Streams ==
    {Stream(0, Header(0, 0, 0), 0, "r1"),
     Stream(24, Header(SectorSize + 16, 1, SectorSize), SectorSize, "r1"),
     Stream(24, Header(SectorSize + 16, 1, SectorSize), SectorSize, "r2"),
     Stream(24, Header(SectorSize + 16, 1, SectorSize), 100, "r1"),
     Stream(24, Header(SectorSize + 17, 1, SectorSize), SectorSize, "r1"),
     Stream(24, Header(40, 2, 16), 16, "r1"),
     Stream(24, Header(16, 0, 0), 0, "r1"),
     Stream(24, Header(0, 1, SectorSize + 1), SectorSize + 1, "r1"),
     Stream(24, Header(32, 1, 16), 16, "r1"),
     Stream(24, Header(16, 1, 0), 0, "r1")}

NoRet == [err |-> Nil, data |-> NilSector]

NewLoc == [attempt |-> 1, sectorPrice |-> 0, txn |-> NoVal, signed |-> ZeroTxn,
           err |-> Nil, data |-> NilSector]

NewHist(calls, c) ==
    [calls |-> calls, start |-> c, attempts |-> 1, reconnects |-> 0, handshakes |-> 0,
     closes |-> 0, syncs |-> <<>>, proposed |-> <<>>, stopped |-> FALSE, errs |-> <<>>,
     conns |-> <<>>, reads |-> <<>>]

\* NewDownloader returned a Downloader
InitDl ==
    /\ shards = NewEphemeralMetaDB.shards /\ chunks = NewEphemeralMetaDB.chunks
    /\ blobs = NewEphemeralMetaDB.blobs /\ refs = NewEphemeralMetaDB.refs
    /\ bktShards = NewBoltMetaDB.shards /\ bktChunks = NewBoltMetaDB.chunks
    /\ bktBlobs = NewBoltMetaDB.blobs
    /\ seqShards = NewBoltMetaDB.seqShards /\ seqChunks = NewBoltMetaDB.seqChunks
    /\ call = [op |-> "New"] /\ eret = Ret(NoErr, NoVal) /\ bret = Ret(NoErr, NoVal)
    /\ nops = 0 /\ live = [e |-> {}, b |-> {}]
    /\ pc = Idle /\ mu = 0 /\ req = Idle /\ obs = Idle
    /\ meta = EmptyMap /\ bktMeta = EmptyMap
    /\ walk = NoWalk /\ adding = NotAdding
    /\ conn = "open"
    /\ \E p \in DlPrices : host = [price |-> p]
    /\ sector = NilSector
    /\ \E f \in DlFunds : contract = [renter |-> f, hostpay |-> 0, revno |-> 1, terms |-> "terms"]
    /\ dpc = "idle"
    /\ dcall = [op |-> "none"]
    /\ loc = NewLoc
    /\ dret = NoRet
    /\ wire = <<>>
    /\ hist = NewHist(0, NoVal)
    /\ deadline = "rpc"

\* the caller calls Sector(root) or PartialSector(root, offset, length),
\* whatever became of the connection in the calls before
DlCall ==
    /\ dpc = "idle"
    /\ dret.err # Err("panic")
    /\ hist.calls < MaxCalls
    /\ \E root \in DlRoots :
        \/ dcall' = [op |-> "Sector", root |-> root, offset |-> U32(0), length |-> U32(SectorSize)]
        \/ \E rg \in DlRanges :
             dcall' = [op |-> "PartialSector", root |-> root, offset |-> rg[1], length |-> rg[2]]
    /\ loc' = NewLoc
    /\ dret' = NoRet
    /\ wire' = <<>>
    /\ hist' = NewHist(hist.calls + 1, contract)
    /\ dpc' = "range"
    /\ UNCHANGED <<conn, host, sector, contract, deadline>>
    /\ UNCHANGED DbVars

\* extendDeadline(conn, d): the connection is asked for the deadline now + d
extendDeadline(d) == d

\* partialSector returns (nil, e) and nothing runs on the way out
FailsWithoutDefer(e) ==
    /\ loc' = [loc EXCEPT !.err = e, !.data = NilSector]
    /\ dpc' = "after"
    /\ UNCHANGED deadline

\* partialSector returns (nil, e); the deferred extendDeadline(d.conn, time.Hour) runs
Fails(e) ==
    /\ loc' = [loc EXCEPT !.err = e, !.data = NilSector]
    /\ dpc' = "after"
    /\ deadline' = extendDeadline("hour")

\* extendDeadline(d.conn, modules.NegotiateDownloadTime);
\* if offset+length > SectorSize { return nil, errors.New("invalid sector range") }
CheckRange ==
    /\ dpc = "range"
    /\ IF conn = "nil"                  \* extendDeadline uses a nil net.Conn, before the defer
       THEN /\ loc' = [loc EXCEPT !.err = Err("panic"), !.data = NilSector]
            /\ dpc' = "after"
            /\ hist' = [hist EXCEPT !.errs = Append(@, Err("panic"))]
            /\ UNCHANGED deadline
       ELSE IF Gt32(Add32(dcall.offset, dcall.length), U32(SectorSize))
       THEN /\ Fails(ErrInvalidRange)
            /\ hist' = [hist EXCEPT !.errs = Append(@, ErrInvalidRange)]
       ELSE /\ dpc' = "start"
            /\ deadline' = extendDeadline("negotiate")
            /\ UNCHANGED <<loc, hist>>
    /\ UNCHANGED <<conn, host, sector, contract, dcall, dret, wire>>
    /\ UNCHANGED DbVars

\* startRevision(d.conn, &d.host): the host sends its settings, the renter accepts them
StartRevision ==
    /\ dpc = "start"
    /\ \/ \E p \in DlPrices :
            /\ conn = "open"
            /\ host' = [price |-> p]
            /\ wire' = Append(wire, [msg |-> "accept settings"])
            /\ dpc' = "funds"
            /\ UNCHANGED <<loc, hist, deadline>>
       \/ \E e \in IF conn = "open" THEN {ErrDisconnect, ErrRejected} ELSE {ErrDisconnect, ErrClosed} :
            /\ Fails(e)
            /\ hist' = [hist EXCEPT !.errs = Append(@, e)]
            /\ UNCHANGED <<host, wire>>
    /\ UNCHANGED <<conn, sector, contract, dcall, dret>>
    /\ UNCHANGED DbVars

\* txn := d.contract.Transaction(); sectorPrice := price.Mul64(SectorSize); the funds check
CheckFunds ==
    /\ dpc = "funds"
    /\ LET sectorPrice == host.price * SectorSize
       IN  IF contract.renter < sectorPrice
           THEN /\ Fails(ErrFunds)
                /\ hist' = [hist EXCEPT !.errs = Append(@, ErrFunds)]
           ELSE /\ loc' = [loc EXCEPT !.txn = contract, !.sectorPrice = sectorPrice]
                /\ dpc' = "action"
                /\ UNCHANGED <<hist, deadline>>
    /\ UNCHANGED <<conn, host, sector, contract, dcall, dret, wire>>
    /\ UNCHANGED DbVars

\* encoding.WriteObject(d.conn, []modules.DownloadAction{{root, offset, length}})
SendAction ==
    /\ dpc = "action"
    /\ \/ /\ wire' = Append(wire, [msg |-> "action", root |-> dcall.root,
                                   offset |-> dcall.offset, length |-> dcall.length])
          /\ dpc' = "negotiate"
          /\ UNCHANGED <<loc, hist, deadline>>
       \/ LET e == Wrap(ErrDisconnect, "could not send revision action")
          IN  /\ Fails(e)
              /\ hist' = [hist EXCEPT !.errs = Append(@, e)]
              /\ UNCHANGED wire
    /\ UNCHANGED <<conn, host, sector, contract, dcall, dret>>
    /\ UNCHANGED DbVars

\* err == modules.ErrStopResponse
IsStop(e) == e = ErrStopResponse

\* rev := newDownloadRevision(txn.CurrentRevision(), sectorPrice);
\* signedTxn, err := negotiateRevision(d.conn, rev, txn.RenterKey) and the branches on err
Negotiate ==
    /\ dpc = "negotiate"
    /\ \E answer \in {"sign", "stop", "reject", "disconnect"} :
      \E back \in IF answer = "stop" THEN StopReturns ELSE {"countersigned"} :
        LET rev == newDownloadRevision(loc.txn, loc.sectorPrice)
            got == negotiateRevision(rev, answer, back)
            sent == [hist EXCEPT !.proposed = Append(@, [prior |-> loc.txn, rev |-> rev]),
                                 !.stopped = @ \/ answer = "stop"]
        IN  /\ wire' = Append(wire, [msg |-> "revision", rev |-> rev])
            /\ IF IsStop(got.err)
               THEN /\ loc' = [loc EXCEPT !.signed = got.txn]
                    /\ dpc' = "sync"
                    /\ hist' = sent
                    /\ UNCHANGED <<conn, deadline>>
               ELSE IF got.err # Nil
               THEN /\ conn' = "closed"
                    /\ Fails(got.err)
                    /\ hist' = [sent EXCEPT !.closes = @ + 1, !.errs = Append(@, got.err),
                                            !.conns = Append(@, "closed")]
               ELSE /\ loc' = [loc EXCEPT !.signed = got.txn]
                    /\ dpc' = "sync"
                    /\ hist' = sent
                    /\ UNCHANGED <<conn, deadline>>
    /\ UNCHANGED <<host, sector, contract, dcall, dret>>
    /\ UNCHANGED DbVars

\* d.contract.SyncWithHost(signedTxn.FileContractRevisions[0], signedTxn.TransactionSignatures):
\* the zero transaction (no revision, no signature) has no FileContractRevisions[0]
\* and the index panics; any other transaction is handed to the editor as it is
SyncWithHost ==
    /\ dpc = "sync"
    /\ IF loc.signed.sigs = {}
       THEN /\ Fails(Err("panic"))
            /\ hist' = [hist EXCEPT !.errs = Append(@, Err("panic"))]
            /\ UNCHANGED contract
       ELSE \/ /\ contract' = loc.signed.rev
               /\ hist' = [hist EXCEPT !.syncs = Append(@, loc.signed)]
               /\ dpc' = "read"
               /\ UNCHANGED <<loc, deadline>>
            \/ LET e == Wrap(ErrEditor, "could not update contract transaction")
               IN  /\ Fails(e)
                   /\ hist' = [hist EXCEPT !.errs = Append(@, e)]
                   /\ UNCHANGED contract
    /\ UNCHANGED <<conn, host, sector, dcall, dret, wire>>
    /\ UNCHANGED DbVars

\* d.sector.UnmarshalSia(d.conn), the length check, return d.sector, nil
ReadSector ==
    /\ dpc = "read"
    /\ \E r \in Streams :
        LET got == UnmarshalSia(sector, r)
            e == IF got.err # Nil THEN got.err
                 ELSE IF U32(got.sb.len) # dcall.length THEN ErrIncomplete
                 ELSE Nil
        IN  /\ sector' = got.sb
            /\ dpc' = "after"
            /\ deadline' = extendDeadline("hour")
            /\ IF e # Nil
               THEN /\ conn' = "closed"
                    /\ loc' = [loc EXCEPT !.err = e, !.data = NilSector]
                    /\ hist' = [hist EXCEPT !.closes = @ + 1, !.errs = Append(@, e),
                                            !.conns = Append(@, "closed"),
                                            !.reads = Append(@, [before |-> sector, r |-> r, got |-> got])]
               ELSE /\ loc' = [loc EXCEPT !.err = Nil, !.data = got.sb]
                    /\ hist' = [hist EXCEPT !.errs = Append(@, Nil),
                                            !.reads = Append(@, [before |-> sector, r |-> r, got |-> got])]
                    /\ UNCHANGED conn
    /\ UNCHANGED <<host, contract, dcall, dret, wire>>
    /\ UNCHANGED DbVars

\* reconnecting after every attempt the host disconnected in
ShouldReconnectEveryTime(e, attempt) == isHostDisconnect(e)

\* the first attempt failed and PartialSector tries again
ShouldReconnect(e, attempt) == attempt = 1 /\ isHostDisconnect(e)

\* PartialSector returns (data, e) to its caller, or to Sector, which checks the Merkle root next
Returns(e, data) ==
    IF dcall.op = "Sector" /\ e = Nil
    THEN /\ dpc' = "verify"
         /\ loc' = [loc EXCEPT !.err = e, !.data = data]
         /\ UNCHANGED dret
    ELSE /\ dpc' = "idle"
         /\ dret' = [err |-> e, data |-> IF dcall.op = "Sector" THEN NilSector ELSE data]
         /\ UNCHANGED loc

\* PartialSector after partialSector returned: reconnect and try again, or return
AfterPartial ==
    /\ dpc = "after"
    /\ IF ShouldReconnect(loc.err, loc.attempt)
       THEN \/ /\ conn' = "open"                            \* d.conn.Close(); initiateRPC succeeds
               /\ loc' = [NewLoc EXCEPT !.attempt = 2]
               /\ dpc' = "range"
               /\ hist' = [hist EXCEPT !.closes = @ + 1, !.reconnects = @ + 1, !.handshakes = @ + 1,
                                       !.attempts = @ + 1, !.conns = @ \o <<"closed", "open">>]
               /\ deadline' = "rpc"
               /\ UNCHANGED dret
            \/ \E e \in {ErrDisconnect, ErrRejected} :      \* d.conn.Close(); initiateRPC fails
               /\ conn' = "nil"
               /\ dpc' = "idle"
               /\ dret' = [err |-> e, data |-> NilSector]
               /\ hist' = [hist EXCEPT !.closes = @ + 1, !.handshakes = @ + 1,
                                       !.conns = @ \o <<"closed", "nil">>]
               /\ deadline' = "none"
               /\ UNCHANGED loc
       ELSE /\ Returns(loc.err, loc.data)
            /\ UNCHANGED <<conn, hist, deadline>>
    /\ UNCHANGED <<host, sector, contract, dcall, wire>>
    /\ UNCHANGED DbVars

\* Sector: if SectorMerkleRoot(sector) != root { return nil, errors.New("host sent invalid sector data") }
Verify ==
    /\ dpc = "verify"
    /\ dret' = IF SectorMerkleRoot(loc.data) # dcall.root
               THEN [err |-> ErrInvalidData, data |-> NilSector]
               ELSE [err |-> Nil, data |-> loc.data]
    /\ dpc' = "idle"
    /\ UNCHANGED <<conn, host, sector, contract, dcall, loc, wire, hist, deadline>>
    /\ UNCHANGED DbVars

NextDl ==
    \/ DlCall
    \/ CheckRange \/ StartRevision \/ CheckFunds \/ SendAction
    \/ Negotiate \/ SyncWithHost \/ ReadSector
    \/ AfterPartial \/ Verify

SpecDl == InitDl /\ [][NextDl]_vars

\* terminateRPC(conn, host): says goodbye on the connection and closes it;
\* the connection afterwards and what is returned
terminateRPC(c) ==
    CASE c = "open" -> [conn |-> "closed", err |-> Nil]
      [] c = "closed" -> [conn |-> "closed", err |-> ErrClosed]
      [] c = "nil" -> [conn |-> "nil", err |-> Err("panic")]

\* the caller calls Close(): return terminateRPC(d.conn, d.host)
Close ==
    /\ dpc = "idle"
    /\ hist.calls < MaxCalls
    /\ dret.err # Err("panic")
    /\ LET out == terminateRPC(conn)
       IN  /\ conn' = out.conn
           /\ dret' = [err |-> out.err, data |-> NilSector]
           /\ hist' = [NewHist(hist.calls + 1, contract) EXCEPT !.conns = <<conn, out.conn>>]
    /\ dcall' = [op |-> "Close", root |-> "none", offset |-> U32(0), length |-> U32(0)]
    /\ UNCHANGED <<host, sector, contract, dpc, loc, wire, deadline>>
    /\ UNCHANGED DbVars

NextClose == NextDl \/ Close

SpecClose == InitDl /\ [][NextClose]_vars

(***************************************************************************)
(* The blob -> chunk -> shard graph of a store, as the properties read it. *)
(* A view is [shards, chunks, blobs], each a map from id or key to record. *)
(***************************************************************************)
EView == [shards |-> shards, chunks |-> chunks, blobs |-> blobs]

BView ==
    [shards |-> [id \in DOMAIN bktShards |-> UnmarshalShard(bktShards[id]).val],
     chunks |-> [id \in DOMAIN bktChunks |-> UnmarshalChunk(bktChunks[id]).val],
     blobs  |-> [k \in DOMAIN bktBlobs |->
                    DBBlob(k, UnmarshalAll(bktBlobs[k]).Chunks, UnmarshalAll(bktBlobs[k]).Seed)]]

\* the chunks of the live blobs
LiveChunks(v) ==
    {cid \in DOMAIN v.chunks :
        \E k \in DOMAIN v.blobs : \E j \in DOMAIN v.blobs[k].Chunks : v.blobs[k].Chunks[j] = cid}

\* refcount(sid): the (chunk, slot) pairs over the chunks of all live blobs that point to sid
Recount(v, sid) ==
    Cardinality({p \in UNION {{<<cid, t>> : t \in DOMAIN v.chunks[cid].Shards} : cid \in LiveChunks(v)} :
                    v.chunks[p[1]].Shards[p[2]] = sid})

\* the references blob b holds to sid: one per place in b.Chunks and slot of that chunk
Held(v, b, sid) ==
    Cardinality({p \in UNION {{<<j, t>> : t \in DOMAIN v.chunks[b.Chunks[j]].Shards} :
                                j \in {x \in DOMAIN b.Chunks : b.Chunks[x] \in DOMAIN v.chunks}} :
                    v.chunks[b.Chunks[p[1]]].Shards[p[2]] = sid})

\* how many times UnreferencedSectors' result m lists root r under host h
Listed(m, h, r) == IF h \in DOMAIN m /\ r \in DOMAIN m[h] THEN m[h][r] ELSE 0

\* the shards of v with (host, root) = (h, r) that no chunk slot of a live blob points to
Unreferenced(v, h, r) ==
    {sid \in DOMAIN v.shards : /\ v.shards[sid].HostKey = h
                               /\ v.shards[sid].SectorRoot = r
                               /\ Recount(v, sid) = 0}

\* a step that is a call of op
Step(op) == nops' = nops + 1 /\ call'.op = op

\* BoltMetaDB keeps no reference counts (DeleteBlob: "TODO: refcounts")
BoltRefs == EmptyMap

(***************************************************************************)
(* C1: in every state reached by calls that returned, the reference count  *)
(* the store maintains for a shard id equals the number of (chunk, slot)   *)
(* pairs, over the chunks of all live blobs, that point to that shard id.  *)
(***************************************************************************)
C1_RefsMatchGraph ==
    ~Halted => \A sid \in 1..Len(shards) : RefGet(refs, sid) = Recount(EView, sid)

(***************************************************************************)
(* C2: no entry of the reference-count map is ever negative.               *)
(***************************************************************************)
C2_RefsNeverNegative ==
    \A k \in DOMAIN refs : refs[k] >= 0

(***************************************************************************)
(* C3: in every state, unreferencedSectors() lists the (hostKey,           *)
(* sectorRoot) pair of a shard exactly when no chunk slot of a live blob   *)
(* points to that shard, shards never referenced included; in both         *)
(* backends.                                                               *)
(***************************************************************************)
C3_UnreferencedIffNoReference ==
    ~Halted =>
        LET e == EphemeralUnreferencedSectors(EDB)
            b == BoltUnreferencedSectors(BDB)
        IN  /\ e.err = NoErr
            /\ b.err = NoErr
            /\ \A h \in Hosts, r \in Roots :
                /\ Listed(e.val, h, r) = Cardinality(Unreferenced(EView, h, r))
                /\ Listed(b.val, h, r) = Cardinality(Unreferenced(BView, h, r))

(***************************************************************************)
(* C4: deleteBlob(key) returns no error; when key is present it removes    *)
(* the key's record and lowers each shard's count by the references that   *)
(* blob held, once per reference; when key is absent no count and no       *)
(* record changes.  In both backends.                                      *)
(***************************************************************************)
C4_DeleteBlobExact ==
    [][Step("DeleteBlob") =>
        LET key == call'.key
        IN  /\ eret'.err = NoErr
            /\ IF key \in DOMAIN blobs
               THEN /\ DOMAIN blobs' = DOMAIN blobs \ {key}
                    /\ \A k \in DOMAIN blobs' : blobs'[k] = blobs[k]
                    /\ \A sid \in ShardIdsIn \ {0} :
                         RefGet(refs', sid) = RefGet(refs, sid) - Held(EView, blobs[key], sid)
               ELSE blobs' = blobs /\ refs' = refs
            /\ chunks' = chunks /\ shards' = shards
            /\ bret'.err = NoErr
            /\ IF key \in DOMAIN bktBlobs
               THEN /\ DOMAIN bktBlobs' = DOMAIN bktBlobs \ {key}
                    /\ \A k \in DOMAIN bktBlobs' : bktBlobs'[k] = bktBlobs[k]
                    /\ \A sid \in ShardIdsIn \ {0} :
                         RefGet(BoltRefs', sid) = RefGet(BoltRefs, sid) - Held(BView, BView.blobs[key], sid)
               ELSE bktBlobs' = bktBlobs
            /\ bktChunks' = bktChunks /\ bktShards' = bktShards
    ]_vars

(***************************************************************************)
(* C5: addBlob(b) fails with DuplicateKey whenever a live blob has b's key,*)
(* and the stored record is then left as it was.  In both backends.        *)
(***************************************************************************)
ErrDuplicateKey == "duplicate key"

C5_AddBlobRejectsDuplicate ==
    [][Step("AddBlob") =>
        LET key == call'.b.Key
        IN  /\ key \in DOMAIN blobs => eret'.err = ErrDuplicateKey /\ blobs' = blobs
            /\ key \in DOMAIN bktBlobs => bret'.err = ErrDuplicateKey /\ bktBlobs' = bktBlobs
    ]_vars

(***************************************************************************)
(* C6: getBlob(b.key) right after a successful addBlob(b) returns a record *)
(* equal to b (key, ordered chunk ids, seed), and getBlob(k) fails with    *)
(* KeyNotFound for every key never added, or deleted and not added again.  *)
(* In both backends.                                                       *)
(***************************************************************************)
C6_BlobRoundTrip ==
    /\ (call.op = "AddBlob" /\ eret.err = NoErr) =>
            EphemeralBlob(EDB, call.b.Key).err = NoErr /\ EphemeralBlob(EDB, call.b.Key).val = call.b
    /\ (call.op = "AddBlob" /\ bret.err = NoErr) =>
            BoltBlob(BDB, call.b.Key).err = NoErr /\ BoltBlob(BDB, call.b.Key).val = call.b
    /\ \A k \in Keys :
        /\ k \notin live.e => EphemeralBlob(EDB, k).err = ErrKeyNotFound
        /\ k \notin live.b => BoltBlob(BDB, k).err = ErrKeyNotFound
    /\ call.op = "Blob" =>
        /\ call.key \notin live.e => eret.err = ErrKeyNotFound
        /\ call.key \notin live.b => bret.err = ErrKeyNotFound

\* a blob of two chunks was added and reads back equal from both backends, while
\* the other key, not live, is not found
C6_Witness ==
    /\ call.op = "AddBlob" /\ eret.err = NoErr /\ bret.err = NoErr
    /\ Len(call.b.Chunks) = 2
    /\ EphemeralBlob(EDB, call.b.Key).val = call.b
    /\ BoltBlob(BDB, call.b.Key).val = call.b
    /\ \E k \in Keys : /\ k \notin live.e /\ k \notin live.b
                       /\ EphemeralBlob(EDB, k).err = ErrKeyNotFound
                       /\ BoltBlob(BDB, k).err = ErrKeyNotFound

(***************************************************************************)
(* C7: addChunk(m, n, length) fails with InvalidParameters and allocates   *)
(* no chunk whenever m = 0 or m > n, so every stored chunk has             *)
(* 0 < MinShards <= number of shard slots.  In both backends.              *)
(***************************************************************************)
ErrInvalidParameters == "invalid parameters"

C7_AddChunkValidates ==
    [][/\ (Step("AddChunk") /\ (call'.m = 0 \/ call'.m > call'.n)) =>
            /\ eret'.err = ErrInvalidParameters /\ chunks' = chunks
            /\ bret'.err = ErrInvalidParameters /\ bktChunks' = bktChunks
       /\ \A id \in DOMAIN chunks' :
            0 < chunks'[id].MinShards /\ chunks'[id].MinShards <= Len(chunks'[id].Shards)
       /\ \A id \in DOMAIN bktChunks' :
            LET c == UnmarshalChunk(bktChunks'[id]).val
            IN  0 < c.MinShards /\ c.MinShards <= Len(c.Shards)
    ]_vars

(***************************************************************************)
(* C8: getChunk(id) returns a not-found error to its caller for id 0 and   *)
(* for every id no chunk was allocated under: it neither serves a chunk    *)
(* nor ends abnormally.  In both backends.                                 *)
(***************************************************************************)
C8_ChunkNotFoundIsAnError ==
    call.op = "Chunk" =>
        /\ call.id \notin 1..Len(chunks) => eret.err \notin {NoErr, Panic}
        /\ call.id \notin DOMAIN bktChunks => bret.err \notin {NoErr, Panic}

(***************************************************************************)
(* C10: addChunkAndShards(m, length, ss) is all or nothing in both         *)
(* backends: it returns without error the new chunk, stored, whose slots   *)
(* are the ids of the new shards in order, each stored; or it returns an   *)
(* error and has added no shard and no chunk; and while it runs no other   *)
(* caller finds its shards stored without their chunk.                     *)
(***************************************************************************)
\* c is a chunk new in chunk map cs1 (over cs0) whose slots are, in order, shards
\* of sh1 that were not among the ids sh0 and hold ss
AllAdded(c, ss, cs0, cs1, sh0, sh1) ==
    /\ c.ID \in DOMAIN cs1 \ DOMAIN cs0
    /\ cs1[c.ID] = c
    /\ DOMAIN cs1 = DOMAIN cs0 \cup {c.ID}
    /\ Len(c.Shards) = Len(ss)
    /\ \A j \in DOMAIN c.Shards :
        /\ c.Shards[j] \in DOMAIN sh1 \ sh0
        /\ sh1[c.Shards[j]] = ss[j]
        /\ j > 1 => c.Shards[j - 1] < c.Shards[j]

C10_AddChunkAndShardsAllOrNothing ==
    [][/\ Step("AddChunkAndShards") =>
            /\ IF eret'.err = NoErr
               THEN AllAdded(eret'.val, call'.ss, chunks, chunks', adding.sh0, shards')
               ELSE chunks' = chunks /\ DOMAIN shards' = adding.sh0
            /\ IF bret'.err = NoErr
               THEN AllAdded(bret'.val, call'.ss, BView.chunks, BView'.chunks,
                             DOMAIN BView.shards, BView'.shards)
               ELSE bktChunks' = bktChunks /\ bktShards' = bktShards
       /\ adding'.st = "adding" => adding'.ids = <<>>
    ]_vars

(***************************************************************************)
(* C9: setChunkShard is atomic for every concurrent caller: no caller      *)
(* reads the store between the old shard's decrement and the new shard's   *)
(* increment, and when all calls have returned, the store and every value  *)
(* returned are those of the calls made one after another in some order.   *)
(***************************************************************************)
\* the call r made alone on db
Alone(db, r) ==
    CASE r.op = "SetChunkShard" -> EphemeralSetChunkShard(db, r.id, r.i, r.s)
      [] r.op = "Chunk" -> EphemeralChunk(db, r.id)
      [] r.op = "DeleteBlob" -> EphemeralDeleteBlob(db, r.key)
      [] r.op = "UnreferencedSectors" -> EphemeralUnreferencedSectors(db)

\* the calls of the callers in ord, one after another from db: the store and what each returned
RECURSIVE InOrder(_, _, _)
InOrder(db, ord, rets) ==
    IF ord = <<>> THEN [db |-> db, rets |-> rets]
    ELSE LET out == Alone(db, req[Head(ord)])
         IN  InOrder(out.db, Tail(ord), [rets EXCEPT ![Head(ord)] = Ret(out.err, out.val)])

Orders == {o \in [1..NumProcs -> Procs] : \A a, b \in 1..NumProcs : a # b => o[a] # o[b]}

\* p is about to read the store; q has decremented the old shard and not yet incremented the new
Reading(p) == pc[p] \in {"dec", "read", "delete", "scan"}

HalfSet(q) == pc[q] \in {"slot", "inc"}

C9_SetChunkShardAtomic ==
    /\ \A p, q \in DOMAIN pc : (p # q /\ HalfSet(q)) => ~Reading(p) /\ ~HalfSet(p)
    /\ (DOMAIN pc # {} /\ \A p \in DOMAIN pc : pc[p] = "done") =>
            \E o \in Orders :
                LET seq == InOrder(Prepared, o, obs)
                IN  seq.db = EDB /\ seq.rets = obs

\* two calls of SetChunkShard on chunk 1, one per slot of a different shard, have both returned
C9_Witness ==
    /\ DOMAIN pc # {} /\ \A p \in DOMAIN pc : pc[p] = "done"
    /\ req[1].op = "SetChunkShard" /\ req[2].op = "SetChunkShard"
    /\ req[1].i = req[2].i /\ req[1].s # req[2].s
    /\ chunks[1].Shards[req[1].i + 1] = req[2].s

(***************************************************************************)
(* C11: forEachBlob(visit), with a visit that never stops it, hands visit  *)
(* every live blob key exactly once, in ascending lexicographic order,     *)
(* whatever the order of the earlier addBlob, deleteBlob and addShard      *)
(* calls; and every key handed to any visit is the key of a live blob.     *)
(* In both backends.  Live are the blobs added and not deleted when the    *)
(* traversal takes the keys; when no call was made beside the traversal,   *)
(* those are the blobs live when it returns.                               *)
(***************************************************************************)
\* a comes before b lexicographically: a is a proper prefix of b, or at the first place they differ a's byte is less
LexBefore(a, b) ==
    \/ Len(a) < Len(b) /\ \A t \in 1..Len(a) : a[t] = b[t]
    \/ \E t \in 1..Len(a) : /\ t <= Len(b)
                            /\ a[t] < b[t]
                            /\ \A u \in 1..(t - 1) : a[u] = b[u]

Ascending(v) == \A i, j \in 1..Len(v) : i < j => LexBefore(v[i], v[j])

Visited(v) == {v[i] : i \in 1..Len(v)}

C11_ForEachBlobSortedLive ==
    walk.st # "idle" =>
        /\ Ascending(walk.evis) /\ Visited(walk.evis) \subseteq walk.elive
        /\ Ascending(walk.bvis) /\ Visited(walk.bvis) \subseteq walk.blive
        /\ (walk.st = "done" /\ walk.bad = {}) =>
            /\ walk.eerr = NoErr /\ Visited(walk.evis) = walk.elive
            /\ walk.berr = NoErr /\ Visited(walk.bvis) = walk.blive
            /\ call.op = "ForEachBlob" =>
                /\ eret = Ret(NoErr, walk.evis) /\ bret = Ret(NoErr, walk.bvis)
                /\ ~walk.beside => Visited(walk.evis) = live.e /\ Visited(walk.bvis) = live.b

\* three blobs added in another order than the keys', listed in the keys' order,
\* one of them deleted while the listing went on
C11_Witness ==
    /\ walk.st = "done" /\ walk.bad = {} /\ walk.beside
    /\ walk.evis = <<<<1>>, <<1, 2>>, <<2>>>>
    /\ walk.bvis = <<<<1>>, <<1, 2>>, <<2>>>>
    /\ live.e = {<<1>>, <<1, 2>>}
    /\ call.op = "ForEachBlob"

(***************************************************************************)
(* C12: the two backends are observationally equivalent: every operation   *)
(* of every sequence applied to both from empty stores returns the same    *)
(* error, or no error and the same result, in both.                        *)
(***************************************************************************)
C12_BackendsEquivalent ==
    call.op # "New" =>
        /\ eret.err = bret.err
        /\ eret.err = NoErr => eret.val = bret.val

(***************************************************************************)
(* Vocabulary of the Downloader's properties.                              *)
(***************************************************************************)
\* offset + length, as numbers, is more than the sector size
SumExceeds(offset, length) ==
    LET lo == offset[2] + length[2]
        hi == offset[1] + length[1] + (lo \div Half)
    IN  hi > SectorSize \div Half \/ (hi = SectorSize \div Half /\ lo % Half > 0)

\* the number a uint32 below 2^31 stands for
Num32(x) == x[1] * Half + x[2]

\* a call was made and has returned
DlReturned == dpc = "idle" /\ dcall.op # "none"

\* what length bytes cost at the host's price
PriceOf(length) == host.price * Num32(length)

(***************************************************************************)
(* C13: retrieveRange fails with InvalidRange, having sent nothing to the  *)
(* host and recorded no payment, for every 32-bit offset and length whose  *)
(* sum as numbers exceeds the sector size, the pairs whose 32-bit sum      *)
(* wraps around included.                                                  *)
(***************************************************************************)
C13_InvalidRangeRejected ==
    (dcall.op # "none" /\ SumExceeds(dcall.offset, dcall.length)) =>
        /\ wire = <<>>
        /\ hist.syncs = <<>>
        /\ DlReturned => dret.err = ErrInvalidRange

(***************************************************************************)
(* C14: the funds check of retrieveRange fails with InsufficientFunds      *)
(* exactly when the contract's renter funds are less than the per-byte     *)
(* price times the requested length, and a download action is sent only    *)
(* after the check has passed.                                             *)
(***************************************************************************)
C14_FundsCheckByLength ==
    [][/\ (dpc = "funds" /\ dpc' # "funds") =>
            ((dpc' = "after" /\ loc'.err = ErrFunds) <=> (contract.renter < PriceOf(dcall.length)))
       /\ Len(wire') > Len(wire) /\ wire'[Len(wire')].msg = "action" => dpc = "action"
    ]_vars

(***************************************************************************)
(* C15: the revision retrieveRange proposes moves exactly per-byte price   *)
(* times length from the renter to the host relative to the prior          *)
(* revision, for every length from 0 to the sector size, and changes no    *)
(* other term.                                                             *)
(***************************************************************************)
C15_RevisionPaysForLength ==
    [][(dpc = "negotiate" /\ dpc' # "negotiate") =>
            LET p == hist'.proposed[Len(hist'.proposed)]
            IN  /\ p.prior = contract
                /\ p.rev.hostpay = p.prior.hostpay + PriceOf(dcall.length)
                /\ p.rev.renter = p.prior.renter - PriceOf(dcall.length)
                /\ p.rev.terms = p.prior.terms
    ]_vars

InvalidDataErrs == {ErrHeaderTotal, ErrHeaderSectors, ErrHeaderPayload, ErrIncomplete, ErrInvalidData}

(***************************************************************************)
(* C17: a call that fails with invalid sector data (a header that breaks   *)
(* its invariants, a payload of the wrong length, or for retrieveSector a  *)
(* Merkle root that is not the requested one) leaves the connection        *)
(* closed, and the call is not retried after that error.                   *)
(***************************************************************************)
C17_InvalidDataClosesConn ==
    /\ (DlReturned /\ dret.err \in InvalidDataErrs) => conn = "closed"
    /\ \A i \in 1..Len(hist.errs) :
            hist.errs[i] \in InvalidDataErrs => i = Len(hist.errs) /\ hist.attempts = i

(***************************************************************************)
(* C18: retrieveSector returns data only when it is a whole sector whose   *)
(* Merkle root is the requested root; when the root differs it fails with  *)
(* invalid sector data, and the payment for the transfer has been recorded *)
(* exactly once.                                                           *)
(***************************************************************************)
C18_SectorVerified ==
    (DlReturned /\ dcall.op = "Sector") =>
        /\ dret.err = Nil =>
                /\ dret.data.len = SectorSize
                /\ SectorMerkleRoot(dret.data) = dcall.root
        /\ dret.err = ErrInvalidData =>
                /\ Len(hist.syncs) = 1
                /\ contract.hostpay = hist.start.hostpay + host.price * SectorSize

(***************************************************************************)
(* C19: a call reconnects at most once and makes at most two attempts; it  *)
(* reconnects exactly when the first attempt ended in a host disconnect,   *)
(* closing the stale connection before the new handshake; a failed         *)
(* handshake, or the failure of the second attempt, is what the call       *)
(* returns.                                                                *)
(***************************************************************************)
C19_ReconnectOnce ==
    dcall.op # "none" =>
        /\ hist.handshakes <= 1
        /\ hist.attempts <= 2
        /\ hist.attempts = 1 + hist.reconnects
        /\ hist.closes >= hist.handshakes
        /\ hist.handshakes = 1 => Len(hist.errs) >= 1 /\ isHostDisconnect(hist.errs[1])
        /\ DlReturned =>
            /\ isHostDisconnect(hist.errs[1]) => hist.handshakes = 1
            /\ (hist.handshakes = 1 /\ hist.reconnects = 0) =>
                    /\ dret.err # Nil
                    /\ conn = "nil"
            /\ (hist.attempts = 2 /\ hist.errs[2] # Nil) => dret.err = hist.errs[2]

C19_Witness ==
    /\ DlReturned
    /\ hist.attempts = 2
    /\ hist.handshakes = 1
    /\ isHostDisconnect(hist.errs[1])
    /\ isHostDisconnect(hist.errs[2])
    /\ dret.err = hist.errs[2]

(***************************************************************************)
(* C20: one call records at most one paid revision with the contract       *)
(* editor, the reconnect and second attempt included.                      *)
(***************************************************************************)
C20_OnePaymentPerCall ==
    /\ Len(hist.syncs) <= 1
    /\ dcall.op # "none" => contract.revno <= hist.start.revno + 1

(***************************************************************************)
(* C25: in every state the EphemeralMetaDB operations reach, every key of  *)
(* the reference-count map whose count is 0 is the id of a shard that was  *)
(* added (1 .. number of shards), and so UnreferencedSectors returns a     *)
(* result and never indexes outside the shard list.                        *)
(***************************************************************************)
C25_ZeroRefsAreShards ==
    /\ \A sid \in DOMAIN refs : refs[sid] = 0 => sid \in 1..Len(shards)
    /\ call.op = "UnreferencedSectors" => eret.err # Panic

\* the header breaks one of the three bounds
BadHeader(h) == h.totalSize > SectorSize + 16 \/ h.numSectors # 1 \/ h.payloadSize > SectorSize

(***************************************************************************)
(* C23: the payload reader, once it has the 24 bytes of the header,        *)
(* rejects the response with one of the header errors and reads nothing    *)
(* more whenever the total size exceeds sector size + 16, the sector count *)
(* is not 1 or the payload size exceeds the sector size; when the header   *)
(* is accepted it reads payload-size bytes and no more into the buffer,    *)
(* the view has length payload size, and the view never exceeds the        *)
(* sector-size buffer.                                                     *)
(***************************************************************************)
C23_HeaderCheckedBeforePayload ==
    \A k \in 1..Len(hist.reads) :
        LET rd == hist.reads[k]
            h == rd.r.header
            got == rd.got
        IN  /\ got.sb.cap = SectorSize
            /\ got.sb.len <= got.sb.cap
            /\ rd.r.prefix = 24 =>
                /\ BadHeader(h) =>
                    /\ got.err \in {ErrHeaderTotal, ErrHeaderSectors, ErrHeaderPayload}
                    /\ got.read = 24
                /\ ~BadHeader(h) =>
                    /\ got.sb.len = h.payloadSize
                    /\ got.read <= 24 + h.payloadSize
                    /\ got.err = Nil <=> got.read = 24 + h.payloadSize
                    /\ got.err = Nil \/ isHostDisconnect(got.err)

C23_Witness ==
    /\ Len(hist.reads) = 2
    /\ hist.reads[1].r.prefix = 24
    /\ ~BadHeader(hist.reads[1].r.header)
    /\ hist.reads[1].got.read = 24 + 100
    /\ isHostDisconnect(hist.reads[1].got.err)
    /\ hist.reads[2].got.err = ErrHeaderPayload
    /\ hist.reads[2].got.read = 24

(***************************************************************************)
(* C21: Close on a Downloader is idempotent and safe in every state: a     *)
(* second Close, a Close after a failed call closed the connection, and a  *)
(* Close after a failed reconnect left no connection, return no error, do  *)
(* not panic and change nothing.                                           *)
(***************************************************************************)
C21_CloseIdempotent ==
    dcall.op = "Close" =>
        /\ dret.err = Nil
        /\ hist.conns[1] = "open" => conn = "closed"
        /\ hist.conns[1] # "open" => conn = hist.conns[1]

C24_DeadlineRestored ==
    [][/\ (dpc # "after" /\ dpc' = "after" /\ conn # "nil") => deadline' = "hour"
       /\ dpc' \in {"start", "funds", "action", "negotiate", "sync", "read"} => deadline' = "negotiate"
       /\ (dpc' \in {"idle", "verify"} /\ dcall'.op # "none" /\ conn' # "nil") => deadline' = "hour"
    ]_vars

C24_Witness ==
    /\ DlReturned
    /\ dret.err = ErrRejected
    /\ Len(hist.proposed) = 1
    /\ conn = "closed"
    /\ deadline = "hour"

====
